---- MODULE Spec2Model ----
(***************************************************************************)
(* PharmaGuard, src/src/App.jsx: the App component's state (file, drugs,   *)
(* results, loading, error), its handlers onDrop and handleAnalyze, the    *)
(* drug input's onChange, the submit button, and the dropzone that feeds   *)
(* onDrop.  JavaScript values are tagged records: t is the value's type.   *)
(***************************************************************************)
EXTENDS Integers, Sequences, FiniteSets

VARIABLES file, drugs, results, loading, error, inflight, last

vars == <<file, drugs, results, loading, error, inflight, last>>

(* ------------------------------ bounds -------------------------------- *)

\* longest text the drug input's change event carries
MaxLen == 2
\* longest array of records a success response carries
MaxRecs == 2

(* -------------------------- JavaScript values -------------------------- *)

JNull == [t |-> "null"]
JUndefined == [t |-> "undefined"]
JStr(s) == [t |-> "string", v |-> s]
JArray(xs) == [t |-> "array", items |-> xs]

\* JavaScript truthiness, as read by `!file`, `errData.detail || ...`
Truthy(x) ==
  CASE x.t = "null" -> FALSE
    [] x.t = "undefined" -> FALSE
    [] x.t = "string" -> x.v # ""
    [] OTHER -> TRUE

RECURSIVE JoinItems(_)
\* String(x), as `new Error(x)` computes its message
ToStringJS(x) ==
  CASE x.t = "string" -> x.v
    [] x.t = "null" -> "null"
    [] x.t = "undefined" -> "undefined"
    [] x.t = "array" -> JoinItems(x.items)
    [] OTHER -> "[object Object]"
JoinItems(xs) ==
  IF xs = <<>> THEN ""
  ELSE IF Len(xs) = 1 THEN ToStringJS(xs[1])
  ELSE ToStringJS(xs[1]) \o "," \o JoinItems(Tail(xs))

(* ------------------------------ strings -------------------------------- *)

\* characters of the raw drug text: a lower-case letter, its upper case and
\* a blank
RawChars == {"w", "W", " "}

SeqsUpTo(S, n) == UNION {[1..k -> S] : k \in 0..n}

RawTexts == SeqsUpTo(RawChars, MaxLen)

toUpperCaseChar(c) == IF c = "w" THEN "W" ELSE c
\* the text stored as typed
toUpperCase_AsTyped(s) == s
toUpperCase(s) == [i \in 1..Len(s) |-> toUpperCaseChar(s[i])]

IsWhitespace(c) == c = " "
RECURSIVE trimStart(_)
trimStart(s) ==
  IF s # <<>> /\ IsWhitespace(s[1]) THEN trimStart(Tail(s)) ELSE s
RECURSIVE trimEnd(_)
trimEnd(s) ==
  IF s # <<>> /\ IsWhitespace(s[Len(s)])
  THEN trimEnd(SubSeq(s, 1, Len(s) - 1)) ELSE s
\* a check of the raw text, blanks kept
trim_Omitted(s) == s
trim(s) == trimEnd(trimStart(s))

(* ------------------------------ messages ------------------------------- *)

MsgInvalidFile == "Please upload a valid .vcf file under 5MB."
MsgMissingFile == "Please upload a VCF file first."
MsgMissingDrugs == "Please enter at least one drug name."
MsgServerError == "Server error. Make sure your Python backend is running!"

\* err.message of the TypeError a rejected fetch carries: set by the browser
FetchFaultMessages ==
  {"Failed to fetch", "NetworkError when attempting to fetch resource."}
\* err.message of the SyntaxError response.json() rejects with
JsonParseMessages ==
  {"Unexpected end of JSON input"}
\* err.message of the TypeError raised by reading .detail of null
NullDetailMessages ==
  {"Cannot read properties of null (reading 'detail')"}

(* ---------------------------- the dropzone ----------------------------- *)

maxSize == 5242880
AcceptedMimes == {"text/vcard", "application/octet-stream"}
AcceptedExts == {".vcf"}

Candidates ==
  [t : {"file"}, ext : {".vcf", ".txt"},
   type : {"text/vcard", "application/octet-stream", "text/plain"},
   size : {maxSize, maxSize + 1}]

\* what the user drops or picks at once: nothing, one file, or two
DropLists ==
  {<<>>} \cup {<<c>> : c \in Candidates}
         \cup {<<c, d>> : c \in Candidates, d \in Candidates}

fileAccepted(f) == f.type \in AcceptedMimes \/ f.ext \in AcceptedExts
fileMatchSize(f) == f.size <= maxSize
PassesDropzone(f) == fileAccepted(f) /\ fileMatchSize(f)

RECURSIVE SelectSeq2(_, _)
SelectSeq2(s, keep) ==
  IF s = <<>> THEN <<>>
  ELSE IF keep[s[1]] THEN <<s[1]>> \o SelectSeq2(Tail(s), keep)
  ELSE SelectSeq2(Tail(s), keep)

\* useDropzone with multiple: false: the files that pass, unless more than
\* one passes, and then all of them are rejected
DropzoneAccepted(files) ==
  LET ok == SelectSeq2(files, [c \in Candidates |-> PassesDropzone(c)])
  IN IF Len(ok) > 1 THEN <<>> ELSE ok
DropzoneRejected(files) ==
  LET ok == SelectSeq2(files, [c \in Candidates |-> PassesDropzone(c)])
      bad == SelectSeq2(files, [c \in Candidates |-> ~PassesDropzone(c)])
  IN IF Len(ok) > 1 THEN bad \o ok ELSE bad

(* ------------------------- the remote service -------------------------- *)

Records ==
  {[t |-> "object", drug |-> "WARFARIN", risk_label |-> "Safe"],
   [t |-> "object", drug |-> "CODEINE", risk_label |-> "Toxic"]}

\* a success body: a single record or an array of records
SuccessData == Records \cup {JArray(xs) : xs \in SeqsUpTo(Records, MaxRecs)}

\* values of the detail field of an error body; JUndefined: no such field
Details ==
  {JUndefined, JNull, JStr(""), JStr("bad input"),
   JArray(<<[t |-> "object"]>>)}
ErrorObjects == {[t |-> "object", detail |-> d] : d \in Details}

Unparseable == [t |-> "unparseable"]

\* records of every risk label the switch of getRiskColor tells apart, and
\* of one it does not know
RiskLabels == {"Safe", "Adjust Dosage", "Toxic", "Ineffective", "Unknown-Label"}
LabelledRecords ==
  {[t |-> "object", drug |-> "WARFARIN", risk_label |-> l] : l \in RiskLabels}

\* how the fetch of line 48 ends
Outcomes ==
  {[kind |-> "fault", message |-> m] : m \in FetchFaultMessages}
  \cup {[kind |-> "response", ok |-> TRUE, body |-> b] :
          b \in SuccessData \cup {Unparseable}}
  \cup {[kind |-> "response", ok |-> FALSE, body |-> b] :
          b \in ErrorObjects \cup {JNull, Unparseable}}

(* ------------------------------- state --------------------------------- *)

\* file, drugs, results, loading, error: the component's useState slots.
\* inflight: the bodies of the fetches issued and not yet settled.
\* last: the event handled last, with what onDrop read of its arguments
\* and the outcome a settled fetch had.

Init ==
  /\ file = JNull
  /\ drugs = <<>>
  /\ results = JNull
  /\ loading = FALSE
  /\ error = JNull
  /\ inflight = <<>>
  /\ last = [event |-> "init"]

(* ------------------------------ handlers ------------------------------- *)

\* the return of line 16 left out: a rejection runs on into setFile
onDrop_NoReturn(acceptedFiles, rejectedFiles) ==
  /\ error' = IF Len(rejectedFiles) > 0 THEN JStr(MsgInvalidFile) ELSE JNull
  /\ file' = IF Len(acceptedFiles) > 0 THEN acceptedFiles[1] ELSE JUndefined
  /\ UNCHANGED <<drugs, results, loading, inflight>>

onDrop(acceptedFiles, rejectedFiles) ==
  /\ IF Len(rejectedFiles) > 0
     THEN /\ error' = JStr(MsgInvalidFile)
          /\ file' = file
     ELSE /\ error' = JNull
          /\ file' = IF Len(acceptedFiles) > 0
                     THEN acceptedFiles[1] ELSE JUndefined
  /\ UNCHANGED <<drugs, results, loading, inflight>>

\* a request body that is the staged text itself, not a copy of it
onChange_SharedBody(value) ==
  /\ drugs' = toUpperCase(value)
  /\ inflight' = [i \in 1..Len(inflight) |->
                    [inflight[i] EXCEPT !.drugs = toUpperCase(value)]]
  /\ UNCHANGED <<file, results, loading, error>>

onChange(value) ==
  /\ drugs' = toUpperCase(value)
  /\ UNCHANGED <<file, results, loading, error, inflight>>

FormData == [file |-> file, drugs |-> drugs]

\* the two local checks in the other order
handleAnalyze_DrugsFirst ==
  IF trim(drugs) = <<>>
  THEN /\ error' = JStr(MsgMissingDrugs)
       /\ UNCHANGED <<file, drugs, results, loading, inflight>>
  ELSE IF ~Truthy(file)
  THEN /\ error' = JStr(MsgMissingFile)
       /\ UNCHANGED <<file, drugs, results, loading, inflight>>
  ELSE /\ loading' = TRUE
       /\ error' = JNull
       /\ results' = JNull
       /\ inflight' = Append(inflight, FormData)
       /\ UNCHANGED <<file, drugs>>

\* a submission that leaves the previous error on screen
handleAnalyze_KeepsError ==
  IF ~Truthy(file)
  THEN /\ error' = JStr(MsgMissingFile)
       /\ UNCHANGED <<file, drugs, results, loading, inflight>>
  ELSE IF trim(drugs) = <<>>
  THEN /\ error' = JStr(MsgMissingDrugs)
       /\ UNCHANGED <<file, drugs, results, loading, inflight>>
  ELSE /\ loading' = TRUE
       /\ results' = JNull
       /\ inflight' = Append(inflight, FormData)
       /\ UNCHANGED <<file, drugs, error>>

\* a submission that does not set loading
handleAnalyze_NoSetLoading ==
  IF ~Truthy(file)
  THEN /\ error' = JStr(MsgMissingFile)
       /\ UNCHANGED <<file, drugs, results, loading, inflight>>
  ELSE IF trim(drugs) = <<>>
  THEN /\ error' = JStr(MsgMissingDrugs)
       /\ UNCHANGED <<file, drugs, results, loading, inflight>>
  ELSE /\ error' = JNull
       /\ results' = JNull
       /\ inflight' = Append(inflight, FormData)
       /\ UNCHANGED <<file, drugs, loading>>

\* a submission that leaves the previous results on screen
handleAnalyze_KeepsResults ==
  IF ~Truthy(file)
  THEN /\ error' = JStr(MsgMissingFile)
       /\ UNCHANGED <<file, drugs, results, loading, inflight>>
  ELSE IF trim(drugs) = <<>>
  THEN /\ error' = JStr(MsgMissingDrugs)
       /\ UNCHANGED <<file, drugs, results, loading, inflight>>
  ELSE /\ loading' = TRUE
       /\ error' = JNull
       /\ inflight' = Append(inflight, FormData)
       /\ UNCHANGED <<file, drugs, results>>

handleAnalyze ==
  IF ~Truthy(file)
  THEN /\ error' = JStr(MsgMissingFile)
       /\ UNCHANGED <<file, drugs, results, loading, inflight>>
  ELSE IF trim(drugs) = <<>>
  THEN /\ error' = JStr(MsgMissingDrugs)
       /\ UNCHANGED <<file, drugs, results, loading, inflight>>
  ELSE /\ loading' = TRUE
       /\ error' = JNull
       /\ results' = JNull
       /\ inflight' = Append(inflight, FormData)
       /\ UNCHANGED <<file, drugs>>

isArray(data) == data.t = "array"
\* the payload stored as it came
normalizeData_NoWrap(data) == data
normalizeData(data) == IF isArray(data) THEN data ELSE JArray(<<data>>)

\* the fixed message whatever the body says
detailMessage_Fixed(errData) == MsgServerError
\* the Error thrown at line 55
detailMessage(errData) ==
  ToStringJS(IF Truthy(errData.detail) THEN errData.detail
             ELSE JStr(MsgServerError))

\* the try block's result: the data, or the message of what was thrown
Thrown(m) == [thrown |-> TRUE, message |-> m]
Returned(d) == [thrown |-> FALSE, data |-> d]
TryResults(o) ==
  IF o.kind = "fault" THEN {Thrown(o.message)}
  ELSE IF ~o.ok
  THEN IF o.body = Unparseable
       THEN {Thrown(detailMessage([t |-> "object", detail |-> JUndefined]))}
       ELSE IF o.body = JNull
       THEN {Thrown(m) : m \in NullDetailMessages}
       ELSE {Thrown(detailMessage(o.body))}
  ELSE IF o.body = Unparseable
  THEN {Thrown(m) : m \in JsonParseMessages}
  ELSE {Returned(o.body)}

\* loading reset after the try block, not in a finally: skipped on a throw
handleResponse_NoFinally(o) ==
  /\ inflight # <<>>
  /\ \E r \in TryResults(o) :
       IF r.thrown
       THEN /\ error' = JStr(r.message)
            /\ results' = results
            /\ loading' = loading
       ELSE /\ results' = normalizeData(r.data)
            /\ error' = error
            /\ loading' = FALSE
  /\ inflight' = Tail(inflight)
  /\ UNCHANGED <<file, drugs>>

\* lines 52-64: what runs once the fetch has settled
handleResponse(o) ==
  /\ inflight # <<>>
  /\ \E r \in TryResults(o) :
       IF r.thrown
       THEN /\ error' = JStr(r.message)
            /\ results' = results
       ELSE /\ results' = normalizeData(r.data)
            /\ error' = error
  /\ loading' = FALSE
  /\ inflight' = Tail(inflight)
  /\ UNCHANGED <<file, drugs>>

(* ------------------------------ rendering ------------------------------ *)

ColorGreen == "bg-green-100 border-green-500 text-green-900"
ColorYellow == "bg-yellow-100 border-yellow-500 text-yellow-900"
ColorRed == "bg-red-100 border-red-500 text-red-900"
ColorGray == "bg-gray-100 border-gray-500 text-gray-900"

\* the switch with the fall-through of 'Toxic' lost: 'Toxic' reaches default
getRiskColor_NoFallThrough(label) ==
  CASE label = "Safe" -> ColorGreen
    [] label = "Adjust Dosage" -> ColorYellow
    [] label = "Ineffective" -> ColorRed
    [] OTHER -> ColorGray
getRiskColor(label) ==
  CASE label = "Safe" -> ColorGreen
    [] label = "Adjust Dosage" -> ColorYellow
    [] label = "Toxic" -> ColorRed
    [] label = "Ineffective" -> ColorRed
    [] OTHER -> ColorGray

\* results.map: the class of each result card, in order
cardColors ==
  IF Truthy(results)
  THEN [i \in 1..Len(results.items) |->
          getRiskColor(results.items[i].risk_label)]
  ELSE <<>>

\* a button that is never disabled
ButtonEnabled_Always == TRUE
\* the submit button: disabled={loading}
ButtonEnabled == ~loading

(* ------------------------------- events -------------------------------- *)

FileSelected ==
  \E files \in DropLists :
    /\ onDrop(DropzoneAccepted(files), DropzoneRejected(files))
    /\ last' = [event |-> "file",
                acceptedFiles |-> DropzoneAccepted(files),
                anyRejected |-> Len(DropzoneRejected(files)) > 0]

DrugTextChanged ==
  /\ \E value \in RawTexts : onChange(value)
  /\ last' = [event |-> "text"]

Analyze ==
  /\ ButtonEnabled
  /\ handleAnalyze
  /\ last' = [event |-> "analyze"]

AnalyzeWhileDisabled ==
  /\ ~ButtonEnabled
  /\ last' = [event |-> "ignored"]
  /\ UNCHANGED <<file, drugs, results, loading, error, inflight>>

Response ==
  \E o \in Outcomes :
    /\ handleResponse(o)
    /\ last' = [event |-> "response", outcome |-> o]

Next ==
  \/ FileSelected
  \/ DrugTextChanged
  \/ Analyze
  \/ AnalyzeWhileDisabled
  \/ Response

Spec == Init /\ [][Next]_vars

\* a service that answers with one record, of any risk label, or not at all
LabelledOutcomes ==
  {[kind |-> "fault", message |-> m] : m \in FetchFaultMessages}
  \cup {[kind |-> "response", ok |-> TRUE, body |-> b] : b \in LabelledRecords}

ResponseLabelled ==
  \E o \in LabelledOutcomes :
    /\ handleResponse(o)
    /\ last' = [event |-> "response", outcome |-> o]

NextLabelled ==
  \/ FileSelected
  \/ DrugTextChanged
  \/ Analyze
  \/ AnalyzeWhileDisabled
  \/ ResponseLabelled

SpecLabelled == Init /\ [][NextLabelled]_vars

\* the remote call of every submitted request resolves: the awaited fetch
\* settles, and its continuation runs
SpecResolves == Spec /\ WF_vars(Response)

(* ------------------------------- claims -------------------------------- *)

Present(x) == x # JNull
IsBlank(s) == \A i \in 1..Len(s) : s[i] = " "
state == <<file, drugs, results, loading, error, inflight>>

\* the fetch settled last was answered, with this status and body
Answered(ok) ==
  /\ last.event = "response"
  /\ last.outcome.kind = "response"
  /\ last.outcome.ok = ok
Faulted == last.event = "response" /\ last.outcome.kind = "fault"

\* C1: results and error are never both present.
C1_NeverResultsAndError == ~(Present(results) /\ Present(error))

\* C2: after an analyze trigger that failed local validation, results is
\* absent.
C2_FailedValidationClearsResults ==
  (last.event = "analyze"
     /\ error \in {JStr(MsgMissingFile), JStr(MsgMissingDrugs)})
  => results = JNull

\* C3: an analyze trigger with no staged file, whatever the drug text, sets
\* the missing-file message, issues no request and leaves loading false.
C3_NoFileGivesMissingFile ==
  [][(last'.event = "analyze" /\ file \in {JNull, JUndefined})
       => /\ error' = JStr(MsgMissingFile)
          /\ inflight' = inflight
          /\ loading' = FALSE]_vars
C3_Witness ==
  /\ last.event = "analyze"
  /\ file \in {JNull, JUndefined}
  /\ IsBlank(drugs)
  /\ error = JStr(MsgMissingFile)
  /\ inflight = <<>>

\* C4: an analyze trigger with a staged file and empty or whitespace-only
\* drug text sets the missing-drugs message, issues no request and leaves
\* loading false.
C4_BlankDrugsGivesMissingDrugs ==
  [][(last'.event = "analyze" /\ file.t = "file" /\ IsBlank(drugs))
       => /\ error' = JStr(MsgMissingDrugs)
          /\ inflight' = inflight
          /\ loading' = FALSE]_vars
C4_Witness ==
  /\ last.event = "analyze"
  /\ file.t = "file"
  /\ drugs # <<>>
  /\ IsBlank(drugs)
  /\ error = JStr(MsgMissingDrugs)
  /\ inflight = <<>>

\* C5: at most one request is in flight, and an analyze trigger while
\* loading is true changes nothing: no second request, nothing queued.
C5_OneRequestInFlight ==
  /\ [](Len(inflight) <= 1)
  /\ [][(loading /\ last'.event \in {"analyze", "ignored"})
          => UNCHANGED state]_vars
C5_Witness ==
  /\ last.event = "ignored"
  /\ loading
  /\ Len(inflight) = 1

\* C6: after a success response the stored results are the payload as a
\* sequence: a single record as the one-element sequence of that record, a
\* sequence as the same sequence.
C6_ResultsAreThePayloadAsSequence ==
  (Answered(TRUE) /\ last.outcome.body # Unparseable)
  => /\ results.t = "array"
     /\ last.outcome.body \in Records
          => results.items = <<last.outcome.body>>
     /\ last.outcome.body \notin Records
          => results.items = last.outcome.body.items
C6_Witness ==
  /\ Answered(TRUE)
  /\ last.outcome.body \in Records
  /\ results = JArray(<<last.outcome.body>>)

\* C7, as stated: after a non-success response whose body has a detail
\* field, error is that detail value and results is absent.
C7_DetailFieldVerbatim ==
  (Answered(FALSE) /\ last.outcome.body.t = "object"
     /\ last.outcome.body.detail # JUndefined)
  => (error = last.outcome.body.detail /\ results = JNull)
\* C7, amended: after a non-success response whose body has a detail field
\* that is a non-empty string, error is that string and results is absent.
C7_NonEmptyStringDetailVerbatim ==
  (Answered(FALSE) /\ last.outcome.body.t = "object"
     /\ last.outcome.body.detail.t = "string"
     /\ last.outcome.body.detail.v # "")
  => (error = last.outcome.body.detail /\ results = JNull)
C7_Witness ==
  /\ Answered(FALSE)
  /\ last.outcome.body.t = "object"
  /\ last.outcome.body.detail = JStr("bad input")
  /\ error = JStr("bad input")
  /\ results = JNull

\* C8: after a failure with no server-supplied explanation (a network
\* fault, a success status with an unparseable body, a non-success status
\* without a usable detail) error is the one fixed generic message.
NoExplanation ==
  \/ Faulted
  \/ Answered(TRUE) /\ last.outcome.body = Unparseable
  \/ /\ Answered(FALSE)
     /\ \/ last.outcome.body \in {Unparseable, JNull}
        \/ ~Truthy(last.outcome.body.detail)
C8_GenericMessage == NoExplanation => error = JStr(MsgServerError)

\* C9: right after a success response is handled, results is present and
\* error is absent.
C9_SuccessLeavesNoError ==
  (Answered(TRUE) /\ last.outcome.body # Unparseable)
  => (Present(results) /\ error = JNull)

\* C10: onDrop itself never stages a file over 5,242,880 bytes or of an
\* unrecognized type: handed such a candidate as accepted, whatever the
\* rejected list, it does not make it the staged file.
RecognizedVcf(c) ==
  c.ext = ".vcf" \/ c.type \in {"text/vcard", "application/octet-stream"}
C10_OnDropRevalidates ==
  \A c \in Candidates :
    (c.size > 5242880 \/ ~RecognizedVcf(c))
    => ~ENABLED (onDrop(<<c>>, <<>>) /\ file' = c)

\* C11: when the remote call of a submitted request resolves, whatever the
\* outcome, loading becomes false; so every submitted request leaves the
\* Submitting phase, and whenever loading is false an analyze trigger is
\* accepted, with no reset step in between.
C11_ResolvedRequestLeavesSubmitting ==
  /\ loading ~> ~loading
  /\ [][last'.event = "response" => ~loading']_vars
  /\ [](~loading => ENABLED Analyze)
C11_Witness ==
  /\ Faulted
  /\ ~loading
  /\ inflight = <<>>
  /\ ENABLED Analyze

\* C12: every result card gets the class of its risk label alone: Safe the
\* green (low) class, Adjust Dosage the yellow (medium) class, Toxic and
\* Ineffective the same red (high) class, any other label the gray
\* (unknown) class; the four classes differ.
ClassOfLabel(l) ==
  IF l = "Safe" THEN "low"
  ELSE IF l = "Adjust Dosage" THEN "medium"
  ELSE IF l \in {"Toxic", "Ineffective"} THEN "high"
  ELSE "unknown"
ClassOfColor(c) ==
  IF c = ColorGreen THEN "low"
  ELSE IF c = ColorYellow THEN "medium"
  ELSE IF c = ColorRed THEN "high"
  ELSE IF c = ColorGray THEN "unknown"
  ELSE "none"
C12_RiskColorByLabel ==
  /\ Cardinality({ColorGreen, ColorYellow, ColorRed, ColorGray}) = 4
  /\ Len(cardColors) = (IF Present(results) THEN Len(results.items) ELSE 0)
  /\ \A i \in 1..Len(cardColors) :
       ClassOfColor(cardColors[i]) = ClassOfLabel(results.items[i].risk_label)
C12_Witness ==
  /\ Present(results)
  /\ Len(results.items) = 1
  /\ results.items[1].risk_label = "Toxic"
  /\ cardColors = <<ColorRed>>

\* C13: upper-casing is idempotent and leaves no lower-case letter, and the
\* staged drug text, like the drug text of every request in flight, holds
\* no lower-case letter in any reachable state.
IsUpperCase(s) == \A i \in 1..Len(s) : s[i] \in {"W", " "}
C13_DrugTextIsUpperCase ==
  /\ \A raw \in RawTexts :
       /\ toUpperCase(toUpperCase(raw)) = toUpperCase(raw)
       /\ IsUpperCase(toUpperCase(raw))
       /\ Len(toUpperCase(raw)) = Len(raw)
  /\ IsUpperCase(drugs)
  /\ \A i \in 1..Len(inflight) : IsUpperCase(inflight[i].drugs)
C13_Witness ==
  /\ last.event = "text"
  /\ loading
  /\ \E i \in 1..Len(drugs) : drugs[i] = "W"
  /\ \E i \in 1..Len(inflight[1].drugs) : inflight[1].drugs[i] = "W"

\* C14: while loading is true results is absent; the analyze trigger that
\* sets loading leaves error and results absent, and results stays absent
\* until a response is handled.
C14_NoResultsWhileSubmitting ==
  /\ [](loading => results = JNull)
  /\ [][(last'.event = "analyze" /\ loading')
          => (error' = JNull /\ results' = JNull)]_vars
  /\ [][(loading /\ last'.event # "response") => results' = JNull]_vars
C14_Witness ==
  /\ loading
  /\ last.event = "analyze"
  /\ results = JNull
  /\ error = JNull
  /\ Len(inflight) = 1

\* C15: a file-selected event leaves drug text, results, loading and the
\* requests in flight as they were; with a rejection it leaves the staged
\* file as it was and sets the one rejection message, and with an accepted
\* candidate and no rejection it stages that candidate, whatever was
\* staged before.
C15_FileSelectedFrame ==
  [][last'.event = "file"
       => /\ UNCHANGED <<drugs, results, loading, inflight>>
          /\ last'.anyRejected
               => (file' = file /\ error' = JStr(MsgInvalidFile))
          /\ (~last'.anyRejected /\ last'.acceptedFiles # <<>>)
               => (file' = last'.acceptedFiles[1] /\ error' = JNull)]_vars
C15_Witness ==
  /\ last.event = "file"
  /\ last.anyRejected
  /\ last.acceptedFiles # <<>>
  /\ file.t = "file"
  /\ file # last.acceptedFiles[1]
  /\ error = JStr(MsgInvalidFile)
  /\ Present(results)

\* C16: a file-selected event with no candidate, accepted or rejected,
\* sets a rejection reason and leaves the staged file as it was.
C16_NoCandidateIsRejected ==
  [][(last'.event = "file" /\ last'.acceptedFiles = <<>>
        /\ ~last'.anyRejected)
       => (Present(error') /\ (file.t = "file" => file' = file))]_vars

\* C17: right after an analyze trigger that was accepted, error is absent
\* and the request is submitted, or error is the message of this trigger's
\* own failed check: missing file, or missing drugs with a file staged.
C17_AnalyzeReplacesError ==
  [][last'.event = "analyze"
       => \/ /\ loading'
             /\ error' = JNull
             /\ file.t = "file"
             /\ ~IsBlank(drugs)
          \/ /\ ~loading'
             /\ file.t # "file"
             /\ error' = JStr(MsgMissingFile)
          \/ /\ ~loading'
             /\ file.t = "file"
             /\ IsBlank(drugs)
             /\ error' = JStr(MsgMissingDrugs)]_vars
C17_Witness ==
  /\ last.event = "analyze"
  /\ file.t = "file"
  /\ IsBlank(drugs)
  /\ error = JStr(MsgMissingDrugs)

\* C18: while loading is true, nothing but the handling of the response
\* makes it false, and no request is issued: there is no timeout and no
\* cancellation.
C18_OnlyTheResponseEndsSubmitting ==
  [][(loading /\ last'.event # "response")
       => (loading' /\ inflight' = inflight)]_vars
C18_Witness ==
  /\ loading
  /\ last.event = "ignored"
  /\ Len(inflight) = 1
  /\ file.t # "file"

\* C19: loading is true exactly when one request has been issued and its
\* outcome has not been handled.
C19_LoadingTracksTheRequest ==
  /\ Len(inflight) <= 1
  /\ loading <=> Len(inflight) = 1
C19_Witness ==
  /\ Answered(TRUE)
  /\ last.outcome.body = Unparseable
  /\ ~loading
  /\ inflight = <<>>

\* C20: the request carries the file and drug text staged when analyze was
\* triggered; file-selected and drug-text-changed events leave the request
\* in flight as it was; and what the response writes to results or error
\* is set by its outcome alone, the staged file and drug text left as they
\* are.
C20_PayloadFixedAtTrigger ==
  /\ [][(last'.event = "analyze" /\ loading')
          => inflight' = <<[file |-> file, drugs |-> drugs]>>]_vars
  /\ [][last'.event \in {"file", "text"} => inflight' = inflight]_vars
  /\ [][last'.event = "response"
          => LET o == last'.outcome
             IN /\ file' = file /\ drugs' = drugs
                /\ inflight' = <<>>
                /\ IF o.kind = "response" /\ o.ok /\ o.body # Unparseable
                   THEN /\ error' = error
                        /\ results'.items =
                             (IF o.body.t = "array"
                              THEN o.body.items ELSE <<o.body>>)
                   ELSE /\ results' = results
                        /\ Present(error')]_vars
C20_Witness ==
  /\ loading
  /\ last.event \in {"file", "text"}
  /\ Len(inflight) = 1
  /\ inflight[1].file # file
  /\ inflight[1].drugs # drugs

====
